---- MODULE Spec2Model ----
(***************************************************************************)
(* convertCsvToXls (src/src/services/excel-converter.ts, lines 246-420):   *)
(* a semicolon-delimited text table is read, its recognized columns are    *)
(* located, every data row is parsed (date/time, duration), rebuilt into   *)
(* the fixed 18-column Romanian report schema, typed and styled cell by    *)
(* cell and written as a one-sheet workbook.                               *)
(*                                                                         *)
(* A text is a sequence of one-character strings, so that trimming,        *)
(* splitting, lower-casing and parsing are computed on the characters.     *)
(* The xlsx reader is modelled for the cells it keeps as text; date-fns    *)
(* parse is modelled token by token (lexing patterns, validation, setters  *)
(* in priority order).                                                     *)
(***************************************************************************)
EXTENDS Integers, Sequences, FiniteSets, TLC

VARIABLES pc, now, csvData, raw, cols, processed, aoa, ws, wscols, result,
          warned

\* The state of the page that calls the conversion (src/unnamed/part_001):
\* the four useState cells of Home and the FileReader of a started
\* conversion
VARIABLES selectedFile, isLoading, downloadUrl, downloadFilename, reader

homeVars == <<selectedFile, isLoading, downloadUrl, downloadFilename, reader>>

convVars ==
    <<pc, now, csvData, raw, cols, processed, aoa, ws, wscols, result, warned>>

vars ==
    <<pc, now, csvData, raw, cols, processed, aoa, ws, wscols, result, warned,
      homeVars>>

-----------------------------------------------------------------------------
(* Characters and texts                                                    *)

Digits == {"0", "1", "2", "3", "4", "5", "6", "7", "8", "9"}

DigitVal(c) ==
    CASE c = "0" -> 0 [] c = "1" -> 1 [] c = "2" -> 2 [] c = "3" -> 3
      [] c = "4" -> 4 [] c = "5" -> 5 [] c = "6" -> 6 [] c = "7" -> 7
      [] c = "8" -> 8 [] c = "9" -> 9

IsDigit(c) == c \in Digits

\* String.prototype.trim and the \s / \S classes of the regular expressions
WhiteSpace == {" ", "\t"}

UpperCase ==
    <<"A", "B", "C", "D", "E", "F", "G", "H", "I", "J", "K", "L", "M",
      "N", "O", "P", "Q", "R", "S", "T", "U", "V", "W", "X", "Y", "Z">>

LowerCase ==
    <<"a", "b", "c", "d", "e", "f", "g", "h", "i", "j", "k", "l", "m",
      "n", "o", "p", "q", "r", "s", "t", "u", "v", "w", "x", "y", "z">>

LowerChar(c) ==
    IF \E i \in 1..26 : UpperCase[i] = c
    THEN LowerCase[CHOOSE i \in 1..26 : UpperCase[i] = c]
    ELSE c

\* The label kept in the case it is written in
toLowerCase_AsWritten(s) == s

\* String.prototype.toLowerCase
toLowerCase(s) == [i \in 1..Len(s) |-> LowerChar(s[i])]

\* s.slice(from - 1): the text from position `from` (1-based) to the end
Drop(s, from) == IF from > Len(s) THEN << >> ELSE SubSeq(s, from, Len(s))

RECURSIVE TrimLeft(_)
TrimLeft(s) ==
    IF s # << >> /\ Head(s) \in WhiteSpace THEN TrimLeft(Tail(s)) ELSE s

RECURSIVE TrimRight(_)
TrimRight(s) ==
    IF s # << >> /\ s[Len(s)] \in WhiteSpace
    THEN TrimRight(SubSeq(s, 1, Len(s) - 1))
    ELSE s

\* String.prototype.trim
trim(s) == TrimRight(TrimLeft(s))

\* s.includes(c)
includes(s, c) == \E i \in 1..Len(s) : s[i] = c

\* s.split(c) for a one-character separator: never empty, "" gives [""]
RECURSIVE split(_, _)
split(s, c) ==
    IF ~includes(s, c)
    THEN <<s>>
    ELSE LET i == CHOOSE k \in 1..Len(s) :
                      s[k] = c /\ \A j \in 1..(k - 1) : s[j] # c
         IN  <<SubSeq(s, 1, i - 1)>> \o split(Drop(s, i + 1), c)

RECURSIVE join(_, _)
join(parts, c) ==
    IF parts = << >> THEN << >>
    ELSE IF Len(parts) = 1 THEN parts[1]
    ELSE parts[1] \o <<c>> \o join(Tail(parts), c)

RECURSIVE DigitsValue(_)
DigitsValue(s) ==
    IF s = << >> THEN 0
    ELSE 10 * DigitsValue(SubSeq(s, 1, Len(s) - 1)) + DigitVal(s[Len(s)])

AllDigits(s) == \A i \in 1..Len(s) : IsDigit(s[i])

-----------------------------------------------------------------------------
(* JavaScript values.  A cell value or a record field is one of: a string, *)
(* a number (kept exact as the fraction n/d in lowest terms), a Date (its  *)
(* local calendar fields, month 0-based as getMonth() gives it).           *)

Str(s) == [k |-> "string", s |-> s]

RECURSIVE GCD(_, _)
GCD(a, b) == IF b = 0 THEN a ELSE GCD(b, a % b)

Frac(n, d) ==
    LET g == IF n = 0 THEN d ELSE GCD(IF n < 0 THEN -n ELSE n, d)
    IN  [k |-> "number", n |-> n \div g, d |-> d \div g]

Num(n) == Frac(n, 1)

InvalidDate == [k |-> "Date", valid |-> FALSE]

MkDate(y, mo, d, h, mi, s) ==
    [k |-> "Date", valid |-> TRUE, year |-> y, month |-> mo, date |-> d,
     hours |-> h, minutes |-> mi, seconds |-> s]

\* date-fns isValid
isValid(v) == v.k = "Date" /\ v.valid

\* JavaScript truthiness of the values that occur: '' is falsy, a Date is truthy
Truthy(v) ==
    CASE v.k = "string" -> v.s # << >>
      [] v.k = "number" -> v.n # 0
      [] OTHER -> TRUE

NaN == [nan |-> TRUE, n |-> 0]

\* Number(text) for texts of digits, sign, white space and other characters
\* (no decimal point, exponent, radix prefix or "Infinity" occurs in the
\* inputs): white space is stripped, '' is 0, a digit string is its value.
Number(s) ==
    LET t == trim(s)
    IN  IF t = << >> THEN [nan |-> FALSE, n |-> 0]
        ELSE IF AllDigits(t) THEN [nan |-> FALSE, n |-> DigitsValue(t)]
        ELSE IF t[1] \in {"+", "-"} /\ Len(t) > 1 /\ AllDigits(Tail(t))
        THEN [nan |-> FALSE,
              n |-> IF t[1] = "-" THEN -DigitsValue(Tail(t))
                    ELSE DigitsValue(Tail(t))]
        ELSE NaN

-----------------------------------------------------------------------------
(* The calendar                                                            *)

\* date-fns isLeapYearIndex
isLeapYearIndex(year) ==
    year % 400 = 0 \/ (year % 4 = 0 /\ year % 100 # 0)

\* date-fns DAYS_IN_MONTH / DAYS_IN_MONTH_LEAP_YEAR, month 0-based
DaysInMonth(year, month) ==
    CASE month = 1 -> IF isLeapYearIndex(year) THEN 29 ELSE 28
      [] month \in {3, 5, 8, 10} -> 30
      [] OTHER -> 31

\* Days from 1970-01-01 to the civil date (month 0-based), as Date.UTC counts
\* them in the proleptic Gregorian calendar, for years from 1 on.
DaysFromCivil(year, month, date) ==
    LET m  == month + 1
        y  == IF m <= 2 THEN year - 1 ELSE year
        era == y \div 400
        yoe == y - era * 400
        mp  == IF m > 2 THEN m - 3 ELSE m + 9
        doy == (153 * mp + 2) \div 5 + date - 1
        doe == yoe * 365 + yoe \div 4 - yoe \div 100 + doy
    IN  era * 146097 + doe - 719468

\* Date.UTC(year, month, date) in whole days (the value / 86400000)
DateUTCDays(year, month, date) == DaysFromCivil(year, month, date)


-----------------------------------------------------------------------------
(* date-fns parse(dateString, formatString, referenceDate)                 *)
(* A format is the sequence of its tokens, as the formatting-token pattern *)
(* of date-fns cuts the format string: a run of one letter is a unit, any  *)
(* other character is a literal.                                           *)

\* numericPatterns.month and numericPatterns.hour12h: /^(1[0-2]|0?\d)/
MatchUpTo12(s) ==
    IF Len(s) >= 2 /\ s[1] = "1" /\ s[2] \in {"0", "1", "2"} THEN 2
    ELSE IF Len(s) >= 2 /\ s[1] = "0" /\ IsDigit(s[2]) THEN 2
    ELSE IF Len(s) >= 1 /\ IsDigit(s[1]) THEN 1
    ELSE 0

\* numericPatterns.date: /^(3[0-1]|[0-2]?\d)/
MatchUpTo31(s) ==
    IF Len(s) >= 2 /\ s[1] = "3" /\ s[2] \in {"0", "1"} THEN 2
    ELSE IF Len(s) >= 2 /\ s[1] \in {"0", "1", "2"} /\ IsDigit(s[2]) THEN 2
    ELSE IF Len(s) >= 1 /\ IsDigit(s[1]) THEN 1
    ELSE 0

\* numericPatterns.hour23h: /^(2[0-3]|[0-1]?\d)/
MatchUpTo23(s) ==
    IF Len(s) >= 2 /\ s[1] = "2" /\ s[2] \in {"0", "1", "2", "3"} THEN 2
    ELSE IF Len(s) >= 2 /\ s[1] \in {"0", "1"} /\ IsDigit(s[2]) THEN 2
    ELSE IF Len(s) >= 1 /\ IsDigit(s[1]) THEN 1
    ELSE 0

\* parseNDigits(n, ...): /^\d{1,n}/, greedy
RECURSIVE MatchNDigits(_, _)
MatchNDigits(n, s) ==
    IF n = 0 \/ s = << >> \/ ~IsDigit(Head(s)) THEN 0
    ELSE 1 + MatchNDigits(n - 1, Tail(s))

\* match.dayPeriod of the en-US locale, width 'abbreviated' (which falls to
\* the 'any' pattern /^([ap]\.?\s?m\.?|midnight|noon|...)/i) and then width
\* 'narrow' (/^(a|p|mi|n|...)/i), for texts that start with a or p.
MatchDayPeriod(s) ==
    IF s = << >> \/ LowerChar(s[1]) \notin {"a", "p"} THEN 0
    ELSE LET i1 == IF Len(s) >= 2 /\ s[2] = "." THEN 3 ELSE 2
             i2 == IF Len(s) >= i1 /\ s[i1] \in WhiteSpace THEN i1 + 1 ELSE i1
         IN  IF Len(s) >= i2 /\ LowerChar(s[i2]) = "m"
             THEN IF Len(s) >= i2 + 1 /\ s[i2 + 1] = "." THEN i2 + 1 ELSE i2
             ELSE 1

\* The length of the text a token takes from the front of s, 0 when the
\* token does not match (the parser of each unit, or the literal itself).
MatchToken(tok, s) ==
    CASE tok \in {"M", "h"} -> MatchUpTo12(s)
      [] tok = "d" -> MatchUpTo31(s)
      [] tok = "H" -> MatchUpTo23(s)
      [] tok \in {"MM", "dd", "hh", "HH", "mm", "ss"} -> MatchNDigits(2, s)
      [] tok = "yyyy" -> MatchNDigits(4, s)
      [] tok = "a" -> MatchDayPeriod(s)
      [] OTHER -> IF s # << >> /\ s[1] = tok THEN 1 ELSE 0

\* The unit a token sets
UnitOf(tok) ==
    CASE tok \in {"M", "MM"} -> "month"
      [] tok \in {"d", "dd"} -> "date"
      [] tok = "yyyy" -> "year"
      [] tok \in {"h", "hh"} -> "hour12"
      [] tok \in {"H", "HH"} -> "hour23"
      [] tok = "mm" -> "minute"
      [] tok = "ss" -> "second"
      [] tok = "a" -> "dayPeriod"
      [] OTHER -> "literal"

Units == {"year", "month", "date", "dayPeriod", "hour12", "hour23", "minute", "second"}

\* A unit the format has no token for is -1; a parsed unit is 0 or more
NoFields == [u \in Units |-> -1]

Absent(v) == v < 0

\* The value a matched token text stands for: a number, or for the day
\* period the hour it starts at (am 0, pm 12).
TokenValue(tok, text) ==
    IF tok = "a" THEN (IF LowerChar(text[1]) = "p" THEN 12 ELSE 0)
    ELSE DigitsValue(text)

\* The parse loop over the tokens: each token cuts its text off the front of
\* the string or the result is Invalid Date; what is left at the end may
\* only be white space.  Gives the parsed units, or "invalid".
RECURSIVE ParseTokens(_, _, _)
ParseTokens(s, toks, fields) ==
    IF toks = << >>
    THEN IF \E i \in 1..Len(s) : s[i] \notin WhiteSpace
         THEN [ok |-> FALSE, fields |-> NoFields]
         ELSE [ok |-> TRUE, fields |-> fields]
    ELSE LET tok == Head(toks)
             n   == MatchToken(tok, s)
         IN  IF n = 0 THEN [ok |-> FALSE, fields |-> NoFields]
             ELSE IF UnitOf(tok) = "literal"
             THEN ParseTokens(Drop(s, n + 1), Tail(toks), fields)
             ELSE ParseTokens(Drop(s, n + 1), Tail(toks),
                     [fields EXCEPT ![UnitOf(tok)] =
                         TokenValue(tok, SubSeq(s, 1, n))])

\* The setters, run in priority order (year, month, date, day period, hour,
\* minute, second) on a copy of the reference date; a setter whose validate
\* fails makes the result Invalid Date.
SetYear(d, f) ==
    IF ~d.valid \/ Absent(f.year) THEN d
    ELSE IF f.year > 0 THEN MkDate(f.year, 0, 1, 0, 0, 0)
    ELSE InvalidDate

\* The month set as written, one too far
SetMonth_OneBased(d, f) ==
    IF ~d.valid \/ Absent(f.month) THEN d
    ELSE IF f.month - 1 >= 0 /\ f.month - 1 <= 11
    THEN MkDate(d.year, f.month, 1, 0, 0, 0)
    ELSE InvalidDate

SetMonth(d, f) ==
    IF ~d.valid \/ Absent(f.month) THEN d
    ELSE IF f.month - 1 >= 0 /\ f.month - 1 <= 11
    THEN MkDate(d.year, f.month - 1, 1, 0, 0, 0)
    ELSE InvalidDate

SetDate(d, f) ==
    IF ~d.valid \/ Absent(f.date) THEN d
    ELSE IF f.date >= 1 /\ f.date <= DaysInMonth(d.year, d.month)
    THEN MkDate(d.year, d.month, f.date, 0, 0, 0)
    ELSE InvalidDate

SetDayPeriod(d, f) ==
    IF ~d.valid \/ Absent(f.dayPeriod) THEN d
    ELSE MkDate(d.year, d.month, d.date, f.dayPeriod, 0, 0)

\* The hour of a 12-hour clock taken as written, whatever the day period
SetHour12_AsWritten(d, f) ==
    IF ~d.valid \/ Absent(f.hour12) THEN d
    ELSE IF f.hour12 >= 1 /\ f.hour12 <= 12
    THEN MkDate(d.year, d.month, d.date, f.hour12, 0, 0)
    ELSE InvalidDate

SetHour12(d, f) ==
    IF ~d.valid \/ Absent(f.hour12) THEN d
    ELSE IF f.hour12 >= 1 /\ f.hour12 <= 12
    THEN LET isPM == d.hours >= 12
             h == IF isPM /\ f.hour12 < 12 THEN f.hour12 + 12
                  ELSE IF ~isPM /\ f.hour12 = 12 THEN 0
                  ELSE f.hour12
         IN  MkDate(d.year, d.month, d.date, h, 0, 0)
    ELSE InvalidDate

SetHour23(d, f) ==
    IF ~d.valid \/ Absent(f.hour23) THEN d
    ELSE IF f.hour23 >= 0 /\ f.hour23 <= 23
    THEN MkDate(d.year, d.month, d.date, f.hour23, 0, 0)
    ELSE InvalidDate

SetMinute(d, f) ==
    IF ~d.valid \/ Absent(f.minute) THEN d
    ELSE IF f.minute >= 0 /\ f.minute <= 59
    THEN MkDate(d.year, d.month, d.date, d.hours, f.minute, 0)
    ELSE InvalidDate

SetSecond(d, f) ==
    IF ~d.valid \/ Absent(f.second) THEN d
    ELSE IF f.second >= 0 /\ f.second <= 59
    THEN MkDate(d.year, d.month, d.date, d.hours, d.minutes, f.second)
    ELSE InvalidDate

parse(dateString, format, referenceDate) ==
    LET r == ParseTokens(dateString, format, NoFields)
    IN  IF ~r.ok THEN InvalidDate
        ELSE SetSecond(SetMinute(SetHour23(SetHour12(SetDayPeriod(SetDate(
               SetMonth(SetYear(referenceDate, r.fields), r.fields),
               r.fields), r.fields), r.fields), r.fields), r.fields), r.fields)


-----------------------------------------------------------------------------
(* 1. The reader: XLSX.read(csvData, {type: 'string', FS: ';'}) and        *)
(* sheet_to_json(ws, {header: 1, defval: ''}), for cells the reader keeps  *)
(* as text: one row per line, one cell per field, rows filled with '' up   *)
(* to the width of the sheet.                                              *)

Max(S) == CHOOSE x \in S : \A y \in S : y <= x

PadRow(row, width) ==
    [i \in 1..width |-> IF i <= Len(row) THEN row[i] ELSE << >>]

ParseRows(text) ==
    LET lines == split(text, "\n")
        rows  == [i \in 1..Len(lines) |-> split(lines[i], ";")]
        width == Max({Len(rows[i]) : i \in 1..Len(rows)})
    IN  [i \in 1..Len(rows) |-> PadRow(rows[i], width)]

\* What the reader may give: for a text without any cell the sheet has no
\* cell, and the table is either empty (a sheet without a range) or one row
\* holding one '' (a sheet whose range is A1).
XLSXRead(text) ==
    IF text = << >> THEN {<< >>, << << << >> >> >>}
    ELSE {ParseRows(text)}

-----------------------------------------------------------------------------
(* 2. The column index                                                     *)

n_datetime  == <<"d","a","t","e","/","t","i","m","e"," ","p","l","a","y","e","d">>
n_duration  == <<"d","u","r","a","t","i","o","n">>
n_artist    == <<"a","r","t","i","s","t">>
n_titleplayed == <<"t","i","t","l","e"," ","p","l","a","y","e","d">>
n_title     == <<"t","i","t","l","e">>
n_album     == <<"a","l","b","u","m">>
n_composer  == <<"c","o","m","p","o","s","e","r">>
n_year      == <<"y","e","a","r">>
n_publisher == <<"p","u","b","l","i","s","h","e","r">>
n_copyright == <<"c","o","p","y","r","i","g","h","t">>

\* originalHeaders = raw[0].map(h => String(h).trim())
originalHeaders(table) == [i \in 1..Len(table[1]) |-> trim(table[1][i])]

\* idxMap[h.toLowerCase()] = i for every header in turn: the last column
\* of a name is the one kept.  IdxHas is `name in idxMap`, IdxGet its value
\* (0-based, as the code counts).
IdxHas(headers, name) ==
    \E i \in 1..Len(headers) : toLowerCase(headers[i]) = name

IdxGet(headers, name) ==
    Max({i \in 1..Len(headers) : toLowerCase(headers[i]) = name}) - 1

\* A header that is not found taken for the first column
Lookup_FirstColumn(headers, name) ==
    IF IdxHas(headers, name) THEN IdxGet(headers, name) ELSE 0

\* idxMap[name] ?? -1
Lookup(headers, name) ==
    IF IdxHas(headers, name) THEN IdxGet(headers, name) ELSE -1

\* The first column of the table taken for no column (|| in place of ??)
LookupTitle_Falsy(headers) ==
    IF IdxHas(headers, n_titleplayed) /\ IdxGet(headers, n_titleplayed) # 0
    THEN IdxGet(headers, n_titleplayed)
    ELSE IF IdxHas(headers, n_title) /\ IdxGet(headers, n_title) # 0
    THEN IdxGet(headers, n_title)
    ELSE -1

\* idxMap['title played'] ?? idxMap['title'] ?? -1
LookupTitle(headers) ==
    IF IdxHas(headers, n_titleplayed) THEN IdxGet(headers, n_titleplayed)
    ELSE Lookup(headers, n_title)

ColumnIndex(table) ==
    LET h == originalHeaders(table)
    IN  [dtI |-> Lookup(h, n_datetime), durI |-> Lookup(h, n_duration),
         artistI |-> Lookup(h, n_artist), titleI |-> LookupTitle(h),
         albumI |-> Lookup(h, n_album), composerI |-> Lookup(h, n_composer),
         yearI |-> Lookup(h, n_year), pubI |-> Lookup(h, n_publisher),
         copyI |-> Lookup(h, n_copyright)]

NoColumns ==
    [dtI |-> -1, durI |-> -1, artistI |-> -1, titleI |-> -1, albumI |-> -1,
     composerI |-> -1, yearI |-> -1, pubI |-> -1, copyI |-> -1]

\* row[i] for the 0-based index i of a column of the table
Cell(row, i) == row[i + 1]


-----------------------------------------------------------------------------
(* 3. One row into a structured record                                     *)

\* full.includes(' ') ? full.split(/ (.+)/) : [full], destructured as
\* [dateStr, timeStr = '']: the cut is at the first space that a character
\* follows.
SplitDateTime(full) ==
    LET cuts == {i \in 1..(Len(full) - 1) : full[i] = " "}
    IN  IF includes(full, " ") /\ cuts # {}
        THEN LET i == CHOOSE k \in cuts : \A j \in cuts : k <= j
             IN  [dateStr |-> SubSeq(full, 1, i - 1), timeStr |-> Drop(full, i + 1)]
        ELSE [dateStr |-> full, timeStr |-> << >>]

dateFmts ==
    << <<"M", "/", "d", "/", "yyyy">>,
       <<"MM", "/", "dd", "/", "yyyy">>,
       <<"yyyy", "-", "MM", "-", "dd">>,
       <<"dd", ".", "MM", ".", "yyyy">>,
       <<"d", ".", "M", ".", "yyyy">> >>

timeFmts ==
    << <<"h", ":", "mm", ":", "ss", " ", "a">>,
       <<"hh", ":", "mm", ":", "ss", " ", "a">>,
       <<"H", ":", "mm", ":", "ss">>,
       <<"HH", ":", "mm", ":", "ss">>,
       <<"h", ":", "mm", " ", "a">>,
       <<"H", ":", "mm">> >>

\* The year 1900 let through
YearGuard_From1900(d) == d.year >= 1900

\* d.getFullYear() > 1900
YearGuard(d) == d.year > 1900

\* A date later than the reference instant refused
RECURSIVE DateLoop_NotAfterNow(_, _, _)
DateLoop_NotAfterNow(dateStr, i, ref) ==
    IF i > Len(dateFmts) THEN Str(<< >>)
    ELSE LET d == parse(dateStr, dateFmts[i], ref)
         IN  IF isValid(d) /\ YearGuard(d) /\ d.year <= ref.year THEN d
             ELSE DateLoop_NotAfterNow(dateStr, i + 1, ref)

\* The loop over dateFmts from the i-th on: the first format whose parse is
\* valid and passes the year guard gives dateVal; '' when none does.
RECURSIVE DateLoop(_, _, _)
DateLoop(dateStr, i, ref) ==
    IF i > Len(dateFmts) THEN Str(<< >>)
    ELSE LET d == parse(dateStr, dateFmts[i], ref)
         IN  IF isValid(d) /\ YearGuard(d) THEN d
             ELSE DateLoop(dateStr, i + 1, ref)

\* dateVal after the loop and `if (!dateVal) dateVal = dateStr`
ParseDateVal(dateStr, ref) ==
    LET v == DateLoop(dateStr, 1, ref)
    IN  IF ~Truthy(v) THEN Str(dateStr) ELSE v

\* format(new Date(1970, 0, 1), 'yyyy-MM-dd')
base == <<"1", "9", "7", "0", "-", "0", "1", "-", "0", "1">>

baseFmt == <<"yyyy", "-", "MM", "-", "dd">>

\* The loop over timeFmts: parse(`${base} ${timeStr}`, `yyyy-MM-dd ${fmt}`)
RECURSIVE TimeLoop(_, _, _)
TimeLoop(timeStr, i, ref) ==
    IF i > Len(timeFmts) THEN Str(<< >>)
    ELSE LET t == parse(base \o <<" ">> \o timeStr,
                        baseFmt \o <<" ">> \o timeFmts[i], ref)
         IN  IF isValid(t) THEN t ELSE TimeLoop(timeStr, i + 1, ref)

\* The loose shape with the seconds required
LooseTimeShape_ThreeOnly(timeStr) ==
    LET parts == split(timeStr, ":")
    IN  /\ Len(parts) = 3
        /\ \A i \in 1..Len(parts) :
              Len(parts[i]) \in {1, 2} /\ AllDigits(parts[i])

\* /^\d{1,2}:\d{1,2}(:\d{1,2})?$/.test(timeStr)
LooseTimeShape(timeStr) ==
    LET parts == split(timeStr, ":")
    IN  /\ Len(parts) \in {2, 3}
        /\ \A i \in 1..Len(parts) :
              Len(parts[i]) \in {1, 2} /\ AllDigits(parts[i])

\* tmp = new Date(1970, 0, 1); tmp.setHours(h, m, s, 0): values out of range
\* carry into the next unit, and past midnight into the following days.
SetHours(h, m, s) ==
    LET total == h * 3600 + m * 60 + s
        tod   == total % 86400
    IN  MkDate(1970, 0, 1 + total \div 86400,
               tod \div 3600, (tod % 3600) \div 60, tod % 60)

\* const [h, m, s = 0] = timeStr.split(':').map(Number)
LooseTime(timeStr) ==
    LET parts == split(timeStr, ":")
        h == Number(parts[1]).n
        m == Number(parts[2]).n
        s == IF Len(parts) >= 3 THEN Number(parts[3]).n ELSE 0
    IN  SetHours(h, m, s)

ParseTimeVal(timeStr, ref) ==
    LET v == TimeLoop(timeStr, 1, ref)
    IN  IF ~Truthy(v) /\ LooseTimeShape(timeStr) THEN LooseTime(timeStr)
        ELSE v

\* Three parts read as minutes, seconds and a remainder: the hours not folded
ParseDuration_NoHours(txt) ==
    LET parts == split(txt, ":")
        nums  == [i \in 1..Len(parts) |-> Number(parts[i])]
        every == \A i \in 1..Len(nums) : ~nums[i].nan
    IN  IF Len(parts) \in {2, 3} /\ every
        THEN [mins |-> Num(nums[1].n), secs |-> Num(nums[2].n)]
        ELSE [mins |-> Str(<< >>), secs |-> Str(<< >>)]

\* The duration: txt.split(':').map(Number), two parts or three
ParseDuration(txt) ==
    LET parts == split(txt, ":")
        nums  == [i \in 1..Len(parts) |-> Number(parts[i])]
        every == \A i \in 1..Len(nums) : ~nums[i].nan
    IN  IF Len(parts) = 2 /\ every
        THEN [mins |-> Num(nums[1].n), secs |-> Num(nums[2].n)]
        ELSE IF Len(parts) = 3 /\ every
        THEN [mins |-> Num(nums[1].n * 60 + nums[2].n), secs |-> Num(nums[3].n)]
        ELSE [mins |-> Str(<< >>), secs |-> Str(<< >>)]

\* A pass-through field: i !== -1 ? row[i] : ''
Field(row, i) == IF i # -1 THEN Str(Cell(row, i)) ELSE Str(<< >>)

ProcessRow(row, c, ref) ==
    LET dt  == IF c.dtI # -1
               THEN SplitDateTime(trim(Cell(row, c.dtI)))
               ELSE [dateStr |-> << >>, timeStr |-> << >>]
        dur == IF c.durI # -1
               THEN ParseDuration(trim(Cell(row, c.durI)))
               ELSE [mins |-> Str(<< >>), secs |-> Str(<< >>)]
    IN  [dateVal  |-> IF c.dtI # -1 THEN ParseDateVal(dt.dateStr, ref)
                      ELSE Str(<< >>),
         timeVal  |-> IF c.dtI # -1 THEN ParseTimeVal(dt.timeStr, ref)
                      ELSE Str(<< >>),
         mins     |-> dur.mins,
         secs     |-> dur.secs,
         title    |-> Field(row, c.titleI),
         copy     |-> Field(row, c.copyI),
         composer |-> Field(row, c.composerI),
         artist   |-> Field(row, c.artistI),
         album    |-> Field(row, c.albumI),
         pub      |-> Field(row, c.pubI),
         year     |-> Field(row, c.yearI)]

-----------------------------------------------------------------------------
(* 4.-5. The final columns and the sheet data                              *)

columnMapping ==
    << [header |-> "DATA DIFUZARII", key |-> "dateVal"],
       [header |-> "NUMELE EMISIUNII", key |-> "null"],
       [header |-> "ORA DIFUZARII", key |-> "timeVal"],
       [header |-> "MINUTE DIFUZATE", key |-> "mins"],
       [header |-> "SECUNDE DIFUZATE", key |-> "secs"],
       [header |-> "TITLUL PIESEI", key |-> "title"],
       [header |-> "AUTOR MUZICA", key |-> "copy"],
       [header |-> "AUTOR TEXT", key |-> "composer"],
       [header |-> "ARTIST", key |-> "artist"],
       [header |-> "ORCHESTRA, FORMATIE, GRUP", key |-> "null"],
       [header |-> "NR. DE ARTISTI", key |-> "null"],
       [header |-> "ALBUM", key |-> "album"],
       [header |-> "NUMAR CATALOG", key |-> "null"],
       [header |-> "LABEL", key |-> "null"],
       [header |-> "PRODUCATOR", key |-> "pub"],
       [header |-> "TARA", key |-> "null"],
       [header |-> "ANUL INREGISTRARII", key |-> "year"],
       [header |-> "TIPUL INREGISTRARII", key |-> "null"] >>

\* A header label: a string constant of the program, kept whole
Label(l) == [k |-> "string", label |-> l]

\* The header row taken from the keys instead of the labels
HeaderRow_FromKeys ==
    [C \in 1..Len(columnMapping) |-> Label(columnMapping[C].key)]

\* columnMapping.map(c => c.header)
HeaderRow == [C \in 1..Len(columnMapping) |-> Label(columnMapping[C].header)]

\* The copyright and composer fields bound the other way round
DataRow_Swapped(r) ==
    [C \in 1..Len(columnMapping) |->
        LET key == columnMapping[C].key
        IN  IF key = "null" THEN Str(<< >>)
            ELSE IF key = "copy" THEN r.composer
            ELSE IF key = "composer" THEN r.copy
            ELSE r[key]]

\* columnMapping.map(c => c.key ? r[c.key] : '')
DataRow(r) ==
    [C \in 1..Len(columnMapping) |->
        IF columnMapping[C].key # "null" THEN r[columnMapping[C].key]
        ELSE Str(<< >>)]

\* aoa: the header row, then one row per record, in the records' order
BuildAoa(recs) == <<HeaderRow>> \o [i \in 1..Len(recs) |-> DataRow(recs[i])]

\* XLSX.utils.aoa_to_sheet(aoa, {cellDates: true}): one cell per value, typed
\* by the value ('s', 'n', or 'd' with the date format 14 for a Date); no
\* style yet (font size 0 stands for no style).
SheetCell(v) ==
    [v |-> v,
     t |-> CASE v.k = "number" -> "n" [] v.k = "Date" -> "d" [] OTHER -> "s",
     z |-> IF v.k = "Date" THEN "m/d/yy" ELSE "",
     sz |-> 0]

aoa_to_sheet(grid) ==
    [R \in 1..Len(grid) |-> [C \in 1..Len(grid[R]) |-> SheetCell(grid[R][C])]]

-----------------------------------------------------------------------------
(* 6. Style and type conversion                                            *)

\* cell.s.font = {..., sz: 10}
FontSize == 10

\* The serial counted from 1900-01-01
DateSerial_From1900(dt) ==
    Num(DateUTCDays(dt.year, dt.month, dt.date) - DateUTCDays(1900, 0, 1))

\* (Date.UTC(y, m, d) - Date.UTC(1899, 11, 30)) / 86400000
DateSerial(dt) ==
    Num(DateUTCDays(dt.year, dt.month, dt.date) - DateUTCDays(1899, 11, 30))

\* (h * 3600 + m * 60 + s) / 86400
TimeSerial(d) == Frac(d.hours * 3600 + d.minutes * 60 + d.seconds, 86400)

\* The header row left before the font is set
StyleCell_HeaderSkipped(cell, header, isHeaderRow) ==
    LET c1 == [cell EXCEPT !.sz = FontSize]
        c2 == IF header = "DATA DIFUZARII" /\ c1.v.k = "Date"
              THEN [c1 EXCEPT !.v = DateSerial(c1.v), !.t = "n",
                              !.z = "mm/dd/yyyy"]
              ELSE c1
    IN  IF isHeaderRow THEN cell ELSE c2

\* The body of the loop for one cell: the font, then (data rows only) the
\* conversion the column's header asks for.
StyleCell(cell, header, isHeaderRow) ==
    LET c1 == [cell EXCEPT !.sz = FontSize]
        c2 == IF header = "DATA DIFUZARII" /\ c1.v.k = "Date"
              THEN [c1 EXCEPT !.v = DateSerial(c1.v), !.t = "n",
                              !.z = "mm/dd/yyyy"]
              ELSE c1
        c3 == IF header = "ORA DIFUZARII" /\ c2.v.k = "Date"
              THEN [c2 EXCEPT !.v = TimeSerial(c2.v), !.t = "n",
                              !.z = "hh:mm:ss"]
              ELSE c2
        c4 == IF header \in {"MINUTE DIFUZATE", "SECUNDE DIFUZATE"}
                 /\ c3.v.k = "number"
              THEN [c3 EXCEPT !.t = "n", !.z = "0"]
              ELSE c3
    IN  IF isHeaderRow THEN c1 ELSE c4

StyleSheet(sheet, grid) ==
    [R \in 1..Len(sheet) |->
        [C \in 1..Len(sheet[R]) |->
            StyleCell(sheet[R][C], grid[1][C].label, R = 1)]]

-----------------------------------------------------------------------------
(* 7.-8. Column widths and the workbook                                    *)

\* newWs['!cols']: wch of the columns A..R
ColumnWidths ==
    <<Num(14), Num(8), Num(14), Frac(13, 2), Frac(13, 2), Num(48), Num(8),
      Num(8), Num(48), Num(8), Num(8), Num(48), Num(8), Num(8), Num(8),
      Num(8), Num(8), Num(8)>>

\* XLSX.write(newWb, {bookType: 'xls', type: 'buffer'}): the buffer, as the
\* one sheet it serializes
WriteWorkbook(sheet, widths) ==
    [kind |-> "buffer", bookType |-> "xls", sheet |-> sheet, cols |-> widths]

EmptyError == [kind |-> "error", message |-> "CSV data is empty or invalid."]

NoResult == [kind |-> "none"]


-----------------------------------------------------------------------------
(* The page: values of its state                                           *)

\* useState<File | null>(null), useState<string | null>(null)
NoFile == [k |-> "null"]

NoUrl == [k |-> "null"]

\* URL.createObjectURL(blob) of the workbook converted from file
UrlOf(file) == [k |-> "url", of |-> file]

\* useState<string>('converted_data.xls')
DefaultFilename == <<"c", "o", "n", "v", "e", "r", "t", "e", "d", "_", "d", "a", "t", "a", ".", "x", "l", "s">>

\* No FileReader at work
Idle == [stage |-> "idle"]

\* [a-z0-9] under the flags g and i
IsAlphaNumeric(c) ==
    \/ c \in Digits
    \/ \E i \in 1..26 : LowerCase[i] = c \/ UpperCase[i] = c

\* file.name.replace(/\.csv$/i, '').replace(/[^a-z0-9]/gi, '_') and
\* `${safeBaseName}.xls`
SafeFilename(name) ==
    LET n    == Len(name)
        stem == IF n >= 4 /\ toLowerCase(SubSeq(name, n - 3, n)) = <<".", "c", "s", "v">>
                THEN SubSeq(name, 1, n - 4) ELSE name
    IN  [i \in 1..Len(stem) |-> IF IsAlphaNumeric(stem[i]) THEN stem[i] ELSE "_"]
        \o <<".", "x", "l", "s">>

-----------------------------------------------------------------------------
(* The conversion, step by step                                            *)

\* warned: the diagnostics of the run, in the order they are emitted; no step
\* of lines 246-420 emits one (there is no console.warn in them), so every
\* step leaves it as it is.

\* new Date(): the instants a run may start at
Nows == {MkDate(2026, 10, 3, 9, 8, 7), MkDate(1999, 1, 28, 23, 59, 59)}

Init ==
    /\ pc = "start"
    /\ now = MkDate(1970, 0, 1, 0, 0, 0)
    /\ csvData = << >>
    /\ raw = << >>
    /\ cols = NoColumns
    /\ processed = << >>
    /\ aoa = << >>
    /\ ws = << >>
    /\ wscols = << >>
    /\ result = NoResult
    /\ warned = << >>
    /\ selectedFile = NoFile
    /\ isLoading = FALSE
    /\ downloadUrl = NoUrl
    /\ downloadFilename = DefaultFilename
    /\ reader = Idle

\* lines 248-251: the text is read into the raw table
Read(Inputs, Instants) ==
    /\ pc = "start"
    /\ \E text \in Inputs, t \in Instants :
          /\ csvData' = text
          /\ now' = t
          /\ raw' \in XLSXRead(text)
    /\ pc' = "read"
    /\ UNCHANGED <<cols, processed, aoa, ws, wscols, result, warned,
                 homeVars>>

\* A table of a header row alone taken for empty
IsEmpty_NoDataRows(table) == Len(table) <= 1

\* raw.length === 0
IsEmpty(table) == Len(table) = 0

\* lines 252-268: the empty check throws, or the headers are indexed
Index ==
    /\ pc = "read"
    /\ IF IsEmpty(raw)
       THEN /\ pc' = "failed"
            /\ result' = EmptyError
            /\ UNCHANGED cols
       ELSE /\ pc' = "indexed"
            /\ cols' = ColumnIndex(raw)
            /\ UNCHANGED result
    /\ UNCHANGED <<now, csvData, raw, processed, aoa, ws, wscols, warned,
                 homeVars>>

\* lines 271-321: dataRows.map(row => ...)
Process ==
    /\ pc = "indexed"
    /\ processed' = [i \in 1..(Len(raw) - 1) |-> ProcessRow(raw[i + 1], cols, now)]
    /\ pc' = "processed"
    /\ UNCHANGED <<now, csvData, raw, cols, aoa, ws, wscols, result, warned,
                 homeVars>>

\* lines 324-350: the sheet data and the sheet
Build ==
    /\ pc = "processed"
    /\ aoa' = BuildAoa(processed)
    /\ ws' = aoa_to_sheet(BuildAoa(processed))
    /\ pc' = "built"
    /\ UNCHANGED <<now, csvData, raw, cols, processed, wscols, result, warned,
                 homeVars>>

\* lines 353-392: the loop over every cell of the sheet
Style ==
    /\ pc = "built"
    /\ ws' = StyleSheet(ws, aoa)
    /\ pc' = "styled"
    /\ UNCHANGED <<now, csvData, raw, cols, processed, aoa, wscols, result, warned,
                 homeVars>>

\* lines 395-419: column widths, workbook, buffer
Write ==
    /\ pc = "styled"
    /\ wscols' = ColumnWidths
    /\ result' = WriteWorkbook(ws, ColumnWidths)
    /\ pc' = "done"
    /\ UNCHANGED <<now, csvData, raw, cols, processed, aoa, ws, warned,
                 homeVars>>


-----------------------------------------------------------------------------
(* Input tables: header layouts, and data rows of a few variants          *)

\* A header as an export writes it
HeaderText(col) ==
    CASE col = "dt" -> <<"D", "a", "t", "e", "/", "T", "i", "m", "e", " ", "P", "l", "a", "y", "e", "d">>
      [] col = "dur" -> <<"D", "u", "r", "a", "t", "i", "o", "n">>
      [] col = "artist" -> <<"A", "r", "t", "i", "s", "t">>
      [] col = "titlePlayed" -> <<"T", "i", "t", "l", "e", " ", "P", "l", "a", "y", "e", "d">>
      [] col = "title" -> <<"T", "i", "t", "l", "e">>
      [] col = "album" -> <<"A", "l", "b", "u", "m">>
      [] col = "composer" -> <<"C", "o", "m", "p", "o", "s", "e", "r">>
      [] col = "year" -> <<"Y", "e", "a", "r">>
      [] col = "pub" -> <<"P", "u", "b", "l", "i", "s", "h", "e", "r">>
      [] col = "copy" -> <<"C", "o", "p", "y", "r", "i", "g", "h", "t">>
      [] col = "genre" -> <<"G", "e", "n", "r", "e">>

\* The same header in capitals, with spaces around it
HeaderUpper(col) ==
    CASE col = "dt" -> <<" ", "D", "A", "T", "E", "/", "T", "I", "M", "E", " ", "P", "L", "A", "Y", "E", "D", " ">>
      [] col = "dur" -> <<" ", "D", "U", "R", "A", "T", "I", "O", "N", " ">>
      [] col = "artist" -> <<" ", "A", "R", "T", "I", "S", "T", " ">>
      [] col = "titlePlayed" -> <<" ", "T", "I", "T", "L", "E", " ", "P", "L", "A", "Y", "E", "D", " ">>
      [] col = "title" -> <<" ", "T", "I", "T", "L", "E", " ">>
      [] col = "album" -> <<" ", "A", "L", "B", "U", "M", " ">>
      [] col = "composer" -> <<" ", "C", "O", "M", "P", "O", "S", "E", "R", " ">>
      [] col = "year" -> <<" ", "Y", "E", "A", "R", " ">>
      [] col = "pub" -> <<" ", "P", "U", "B", "L", "I", "S", "H", "E", "R", " ">>
      [] col = "copy" -> <<" ", "C", "O", "P", "Y", "R", "I", "G", "H", "T", " ">>
      [] col = "genre" -> <<" ", "G", "E", "N", "R", "E", " ">>

VariantDigit(v) == CASE v = 1 -> "1" [] v = 2 -> "2" [] v = 3 -> "3" [] v = 4 -> "4"

DtSample(v) ==
    CASE v = 1 -> <<"4", "/", "5", "/", "2", "0", "2", "1", " ", "1", ":", "0", "2", ":", "0", "3", " ", "P", "M">>
      [] v = 2 -> <<"2", "0", "2", "1", "-", "0", "4", "-", "0", "5", " ", "1", "3", ":", "0", "2", ":", "0", "3">>
      [] v = 3 -> <<"1", "3", "/", "4", "5", "/", "2", "0", "2", "0", " ", "7", ":", "7", "5">>
      [] v = 4 -> <<"0", "5", ".", "0", "4", ".", "1", "9", "0", "0">>

DurSample(v) ==
    CASE v = 1 -> <<"3", ":", "4", "5">>
      [] v = 2 -> <<"1", ":", "1", "5", ":", "0", "3">>
      [] v = 3 -> <<"3", ":">>
      [] v = 4 -> <<" ", "3", "s", ":", "4", "5">>

\* The cell of a column in a data row of variant v
CellText(col, v) ==
    CASE col = "dt" -> DtSample(v)
      [] col = "dur" -> DurSample(v)
      [] col = "year" -> <<"2", "0", "0", VariantDigit(v)>>
      [] col = "artist" -> <<"A", "r", VariantDigit(v)>>
      [] col = "titlePlayed" -> <<"T", "p", VariantDigit(v)>>
      [] col = "title" -> <<"T", "i", VariantDigit(v)>>
      [] col = "album" -> <<"A", "l", VariantDigit(v)>>
      [] col = "composer" -> <<"C", "m", VariantDigit(v)>>
      [] col = "pub" -> <<"P", "u", VariantDigit(v)>>
      [] col = "copy" -> <<"C", "r", VariantDigit(v)>>
      [] col = "genre" -> <<"G", "e", VariantDigit(v)>>

Variants == 1..4

MaxRows == 2

FullLayout ==
    <<"dt", "dur", "artist", "titlePlayed", "title", "album", "composer",
      "year", "pub", "copy", "genre">>

\* seq without its k-th element (seq itself for k = 0)
Remove(seq, k) ==
    [i \in 1..(Len(seq) - (IF k = 0 THEN 0 ELSE 1)) |->
        IF k = 0 \/ i < k THEN seq[i] ELSE seq[i + 1]]

Reverse(seq) == [i \in 1..Len(seq) |-> seq[Len(seq) + 1 - i]]

Layouts ==
    {[cols |-> Remove(FullLayout, k), upper |-> FALSE] : k \in 0..Len(FullLayout)}
    \cup {[cols |-> Remove(Remove(FullLayout, 4), 4), upper |-> FALSE],
          [cols |-> Reverse(FullLayout), upper |-> TRUE],
          [cols |-> <<"artist", "titlePlayed", "dt", "dur">>, upper |-> FALSE],
          [cols |-> <<"title", "dur", "dt">>, upper |-> TRUE],
          [cols |-> <<"genre">>, upper |-> FALSE],
          [cols |-> <<"titlePlayed", "title", "artist">>, upper |-> FALSE],
          [cols |-> <<"title", "titlePlayed">>, upper |-> TRUE]}

RowSeqs == UNION {[1..n -> Variants] : n \in 0..MaxRows}

CsvText(layout, rows) ==
    LET header == join([i \in 1..Len(layout.cols) |->
                          IF layout.upper THEN HeaderUpper(layout.cols[i])
                          ELSE HeaderText(layout.cols[i])], ";")
        line(v) == join([i \in 1..Len(layout.cols) |->
                          CellText(layout.cols[i], v)], ";")
    IN  join(<<header>> \o [r \in 1..Len(rows) |-> line(rows[r])], "\n")

\* The end-to-end example of the specification
ExampleCsv ==
    <<"A", "r", "t", "i", "s", "t", ";", "T", "i", "t", "l", "e", " ", "P", "l", "a", "y", "e", "d", ";", "D", "a", "t", "e", "/", "T", "i", "m", "e", " ", "P", "l", "a", "y", "e", "d", ";", "D", "u", "r", "a", "t", "i", "o", "n", "\n">>
    \o <<"A", "b", "b", "a", ";", "W", "a", "t", "e", "r", "l", "o", "o", ";", "4", "/", "5", "/", "2", "0", "2", "1", " ", "1", ":", "0", "2", ":", "0", "3", " ", "P", "M", ";", "3", ":", "4", "5">>

\* A table whose rows are shorter than its header
ShortRowsCsv ==
    <<"A", "r", "t", "i", "s", "t", ";", "D", "u", "r", "a", "t", "i", "o", "n", ";", "Y", "e", "a", "r", "\n", "A", "b", "b", "a", "\n", "Q", "u", "e", "e", "n", ";", "2", ":", "0", "5">>

TableInputs ==
    {CsvText(l, rows) : l \in Layouts, rows \in RowSeqs}
    \cup {ExampleCsv, ShortRowsCsv, << >>}

ReadTables == Read(TableInputs, Nows)

Next == ReadTables \/ Index \/ Process \/ Build \/ Style \/ Write

Spec == Init /\ [][Next]_vars


-----------------------------------------------------------------------------
(* Properties of the whole conversion (specification Spec)                 *)

Built == pc \in {"built", "styled", "done"}

Styled == pc \in {"styled", "done"}

\* The data rows of the raw table, counted from 1
DataRowCount == Len(raw) - 1

BlankValue == Str(<< >>)

BlankCell(cell) == cell.v = BlankValue /\ cell.t = "s"

\* The header row names a column, case-insensitively and trimmed
HasHeader(name) ==
    \E k \in 1..Len(raw[1]) : toLowerCase(trim(raw[1][k])) = name

\* The one column of that name (the tables read have no header twice)
ColumnOf(name) ==
    CHOOSE k \in 1..Len(raw[1]) : toLowerCase(trim(raw[1][k])) = name

LabelsOf(row) == [C \in 1..Len(row) |-> row[C].v.label]

AmendedLabels ==
    <<"DATA DIFUZARII", "NUMELE EMISIUNII", "ORA DIFUZARII", "MINUTE DIFUZATE",
      "SECUNDE DIFUZATE", "TITLUL PIESEI", "AUTOR MUZICA", "AUTOR TEXT",
      "ARTIST", "ORCHESTRA, FORMATIE, GRUP", "NR. DE ARTISTI", "ALBUM",
      "NUMAR CATALOG", "LABEL", "PRODUCATOR", "TARA", "ANUL INREGISTRARII",
      "TIPUL INREGISTRARII">>

StatedLabels ==
    <<"DATA DIFUZARII", "NUMELE EMISIUNII", "ORA DIFUZARII", "MINUTE DIFUZATE",
      "SECUNDE DIFUZATE", "TITLUL PIESEI", "AUTOR MUZICA", "AUTOR TEXT",
      "ARTIST", "ORCHESTRA FORMATIE GRUP", "NR. DE ARTISTI", "ALBUM",
      "NUMAR CATALOG", "LABEL", "PRODUCATOR", "TARA", "ANUL INREGISTRARII",
      "TIPUL INREGISTRARII">>

\* C1 as stated: row 0 of the output is the 18 labels of the specification,
\* the tenth being ORCHESTRA FORMATIE GRUP, whatever the input.
C1_StatedHeaderRow ==
    pc = "done" => LabelsOf(result.sheet[1]) = StatedLabels

\* C1, amended: for every input that converts, row 0 of the sheet data, of
\* the sheet and of the written workbook is the 18 labels in the stated
\* order, the tenth being "ORCHESTRA, FORMATIE, GRUP" (with its commas),
\* whatever the input headers and the number of data rows.
C1_HeaderRow ==
    /\ Built => /\ [C \in 1..Len(aoa[1]) |-> aoa[1][C].label] = AmendedLabels
                /\ LabelsOf(ws[1]) = AmendedLabels
    /\ pc = "done" => LabelsOf(result.sheet[1]) = AmendedLabels

C1_Witness ==
    /\ pc = "done"
    /\ DataRowCount = 2
    /\ ~HasHeader(n_datetime)
    /\ result.sheet[1][10].v.label = "ORCHESTRA, FORMATIE, GRUP"

\* The output columns (1-based) bound to a pass-through header
PassThrough ==
    {[col |-> 7, name |-> n_copyright], [col |-> 8, name |-> n_composer],
     [col |-> 9, name |-> n_artist], [col |-> 12, name |-> n_album],
     [col |-> 15, name |-> n_publisher], [col |-> 17, name |-> n_year]}

Unbound == {2, 10, 11, 13, 14, 16, 18}

C3_EndToEnd ==
    (pc = "done" /\ csvData = ExampleCsv) =>
        LET sheet == result.sheet
            row   == sheet[2]
        IN  /\ Len(sheet) = 2
            /\ LabelsOf(sheet[1])[1] = "DATA DIFUZARII"
            /\ row[1].t = "n" /\ row[1].v.k = "number"
            /\ row[1].v.n = 44291 /\ row[1].v.d = 1
            /\ LabelsOf(sheet[1])[3] = "ORA DIFUZARII"
            /\ row[3].t = "n" /\ row[3].v.k = "number"
            /\ row[3].v.n * 86400 = 46923 * row[3].v.d
            /\ LabelsOf(sheet[1])[4] = "MINUTE DIFUZATE"
            /\ row[4].v = Num(3)
            /\ LabelsOf(sheet[1])[5] = "SECUNDE DIFUZATE"
            /\ row[5].v = Num(45)
            /\ LabelsOf(sheet[1])[9] = "ARTIST"
            /\ row[9].v = Str(<<"A", "b", "b", "a">>)
            /\ LabelsOf(sheet[1])[6] = "TITLUL PIESEI"
            /\ row[6].v = Str(<<"W", "a", "t", "e", "r", "l", "o", "o">>)
            /\ \A C \in (1..18) \ {1, 3, 4, 5, 6, 9} : BlankCell(row[C])

C3_Witness == pc = "done" /\ csvData = ExampleCsv /\ Len(result.sheet) = 2


\* The cell of a data row under a header
OwnCell(i, name) == raw[i + 1][ColumnOf(name)]

\* C9: a recognized header that is absent does not fail the conversion, and
\* every output cell bound to it is blank in every data row (no Duration
\* header: MINUTE DIFUZATE and SECUNDE DIFUZATE blank; no date/time header:
\* DATA DIFUZARII and ORA DIFUZARII blank; neither title header: TITLUL
\* PIESEI blank); the columns that are present are converted from their own
\* cells as they are in any other table.
C9_AbsentColumns ==
    /\ (pc \notin {"start", "read"} /\ Len(raw) >= 1) => pc # "failed"
    /\ Styled =>
         \A i \in 1..DataRowCount :
            LET row == ws[i + 1]
            IN  /\ ~HasHeader(n_datetime) => BlankCell(row[1]) /\ BlankCell(row[3])
                /\ ~HasHeader(n_duration) => BlankCell(row[4]) /\ BlankCell(row[5])
                /\ (~HasHeader(n_titleplayed) /\ ~HasHeader(n_title)) =>
                      BlankCell(row[6])
                /\ \A b \in PassThrough :
                      IF HasHeader(b.name)
                      THEN row[b.col].v = Str(OwnCell(i, b.name))
                      ELSE BlankCell(row[b.col])
                /\ HasHeader(n_duration) =>
                      LET d == ParseDuration(trim(OwnCell(i, n_duration)))
                      IN  row[4].v = d.mins /\ row[5].v = d.secs
                /\ HasHeader(n_datetime) =>
                      LET dt == SplitDateTime(trim(OwnCell(i, n_datetime)))
                      IN  /\ processed[i].dateVal = ParseDateVal(dt.dateStr, now)
                          /\ processed[i].timeVal = ParseTimeVal(dt.timeStr, now)
    /\ pc = "done" => result.kind = "buffer" /\ result.sheet = ws

C9_Witness ==
    /\ pc = "done"
    /\ DataRowCount = 2
    /\ ~HasHeader(n_duration)
    /\ HasHeader(n_datetime)
    /\ BlankCell(result.sheet[2][4]) /\ BlankCell(result.sheet[2][5])
    /\ result.sheet[2][1].t = "n"

\* Every row of the sheet has the 18 cells of the schema, each styled
CompleteSheet(sheet) ==
    /\ Len(sheet) = Len(raw)
    /\ \A R \in 1..Len(sheet) :
          /\ Len(sheet[R]) = 18
          /\ \A C \in 1..18 : sheet[R][C].sz = FontSize

\* C10: the conversion fails exactly when the raw table has zero rows: then
\* it raises the error before any sheet data, sheet or buffer exists; with a
\* header row or more it never fails, whatever the data rows hold, the
\* buffer it returns holds the complete sheet, and no buffer exists before
\* the last step.
C10_FailsIffEmpty ==
    /\ pc = "failed" =>
          /\ Len(raw) = 0
          /\ result = EmptyError
          /\ aoa = << >> /\ ws = << >> /\ wscols = << >>
    /\ (pc \notin {"start", "read"} /\ Len(raw) = 0) => pc = "failed"
    /\ (pc \notin {"start", "read"} /\ Len(raw) >= 1) => pc # "failed"
    /\ pc = "done" =>
          /\ Len(raw) >= 1
          /\ result.kind = "buffer"
          /\ CompleteSheet(result.sheet)
          /\ Len(result.cols) = 18
    /\ pc # "done" => result.kind # "buffer"

\* A table whose rows hold a date text no pattern accepts and a duration of
\* no supported shape is converted to the end
C10_Witness ==
    /\ pc = "done"
    /\ HasHeader(n_datetime) /\ HasHeader(n_duration)
    /\ DataRowCount >= 1
    /\ result.sheet[2][1].t = "s" /\ result.sheet[2][1].v # BlankValue
    /\ BlankCell(result.sheet[2][4])
    /\ OwnCell(1, n_duration) # << >>

-----------------------------------------------------------------------------
(* Duration texts (specification SpecDur): a table of the one column       *)
(* Duration and one data row                                               *)

DurParts ==
    {<< >>,
     <<"0">>,
     <<"3">>,
     <<"0", "3">>,
     <<"7", "5">>,
     <<"1", "5">>,
     <<"1">>,
     <<"3", "s">>}

MaxDurParts == 3

DurTexts ==
    {join(ps, ":") : ps \in UNION {[1..n -> DurParts] : n \in 1..MaxDurParts}}
    \cup {<<" ", "3", ":", "4", "5", " ">>, <<"a", "b", "c">>}

DurationInputs ==
    {HeaderText("dur") \o <<"\n">> \o t : t \in DurTexts} \cup {<< >>}

ReadDurations == Read(DurationInputs, {MkDate(2026, 10, 3, 9, 8, 7)})

NextDur == ReadDurations \/ Index \/ Process \/ Build \/ Style \/ Write

SpecDur == Init /\ [][NextDur]_vars

\* The duration text of the data row, trimmed, once the row is processed
DurRow == pc \in {"processed", "built", "styled", "done"} /\ DataRowCount = 1

DurText == trim(raw[2][1])

\* Digit texts and the numbers they write
NumericParts ==
    {[t |-> <<"0">>, n |-> 0],
     [t |-> <<"3">>, n |-> 3],
     [t |-> <<"0", "3">>, n |-> 3],
     [t |-> <<"7", "5">>, n |-> 75],
     [t |-> <<"1", "5">>, n |-> 15],
     [t |-> <<"1">>, n |-> 1]}

MinutesSecondsAre(m, s) ==
    /\ processed[1].mins = Num(m) /\ processed[1].secs = Num(s)
    /\ Styled => /\ ws[2][4].v = Num(m) /\ ws[2][4].t = "n"
                 /\ ws[2][5].v = Num(s) /\ ws[2][5].t = "n"

\* C4: a duration of two numeric parts a:b gives minutes a and seconds b; of
\* three numeric parts h:m:s gives minutes h*60 + m and seconds s; so 75:03
\* and 1:15:03 both give minutes 75 and seconds 3.
C4_DurationParts ==
    DurRow =>
      /\ \A a \in NumericParts, b \in NumericParts :
            DurText = a.t \o <<":">> \o b.t => MinutesSecondsAre(a.n, b.n)
      /\ \A h \in NumericParts, m \in NumericParts, s \in NumericParts :
            DurText = h.t \o <<":">> \o m.t \o <<":">> \o s.t =>
               MinutesSecondsAre(h.n * 60 + m.n, s.n)
      /\ DurText = <<"7", "5", ":", "0", "3">> => MinutesSecondsAre(75, 3)
      /\ DurText = <<"1", ":", "1", "5", ":", "0", "3">> => MinutesSecondsAre(75, 3)

C4_Witness ==
    /\ pc = "done"
    /\ DataRowCount = 1
    /\ DurText = <<"1", ":", "1", "5", ":", "0", "3">>
    /\ result.sheet[2][4].v = Num(75)
    /\ result.sheet[2][5].v = Num(3)

\* A part that writes a number: digits, and at least one
NumericPart(p) == p # << >> /\ AllDigits(p)

\* C5 as stated: a duration text that does not split on ':' into exactly 2
\* or 3 parts, or that has a non-numeric part (an empty part included, as in
\* "3:", ":45" or ":"), leaves minutes and seconds blank.
C5_BlankOnBadShape ==
    DurRow =>
      LET parts == split(DurText, ":")
      IN  (Len(parts) \notin {2, 3}
             \/ \E i \in 1..Len(parts) : ~NumericPart(parts[i]))
          => /\ processed[1].mins = BlankValue
             /\ processed[1].secs = BlankValue

-----------------------------------------------------------------------------
(* Date texts (specification SpecDate): a table of the one column          *)
(* Date/Time Played and one data row                                       *)

DateNums ==
    {<<"4">>,
     <<"0", "5">>,
     <<"1", "3">>,
     <<"3", "1">>,
     <<"4", "5">>,
     <<"2", "0", "2", "1">>,
     <<"1", "9", "0", "0">>,
     <<"1", "9", "0", "1">>,
     <<"0">>,
     <<"2", "9">>,
     <<"2">>,
     <<"2", "0", "2", "0">>}

DateSeps == {"/", "-", "."}

DateTexts ==
    {a \o <<sep>> \o b \o <<sep>> \o c :
        a \in DateNums, b \in DateNums, c \in DateNums, sep \in DateSeps}
    \cup {<<"4", "/", "5", "/", "2", "0", "2", "1", "1">>,
          <<"4", "/", "5", "/", "2", "0", "2", "1", "/">>,
          <<"4", "/", "5">>,
          << >>,
          <<"a", "b", "c">>,
          <<"4", "-", "5", "/", "2", "0", "2", "1">>,
          <<"4", "/", "5", ".", "2", "0", "2", "1">>}

SampleTime == <<" ", "1", ":", "0", "2", ":", "0", "3", " ", "P", "M">>

DateInputs ==
    {HeaderText("dt") \o <<"\n">> \o d \o sfx :
        d \in DateTexts, sfx \in {<< >>, SampleTime}}
    \cup {<< >>}

ReadDates == Read(DateInputs, {MkDate(2026, 10, 3, 9, 8, 7)})

NextDate == ReadDates \/ Index \/ Process \/ Build \/ Style \/ Write

SpecDate == Init /\ [][NextDate]_vars

\* The one data row of a one-column table, once it is processed
OneRow == pc \in {"processed", "built", "styled", "done"} /\ DataRowCount = 1

\* The field of that row, trimmed; its text before the first space (all of
\* it when it has none) and after it ('' when it has none)
FieldText == trim(raw[2][1])

FirstSpace(s) ==
    IF \E i \in 1..Len(s) : s[i] = " "
    THEN CHOOSE i \in 1..Len(s) : s[i] = " " /\ \A j \in 1..(i - 1) : s[j] # " "
    ELSE 0

DateSubstring ==
    IF FirstSpace(FieldText) = 0 THEN FieldText
    ELSE SubSeq(FieldText, 1, FirstSpace(FieldText) - 1)

TimeSubstring ==
    IF FirstSpace(FieldText) = 0 THEN << >>
    ELSE SubSeq(FieldText, FirstSpace(FieldText) + 1, Len(FieldText))

\* The i-th date pattern is accepted: it parses and its year is over 1900
DateAccepted(i) ==
    LET d == parse(DateSubstring, dateFmts[i], now)
    IN  d.valid /\ d.year > 1900

\* The output date cell is a text cell holding the date substring
DateCellIsText ==
    /\ processed[1].dateVal = Str(DateSubstring)
    /\ Built => aoa[2][1] = Str(DateSubstring)
    /\ Styled => /\ ws[2][1].v = Str(DateSubstring)
                 /\ ws[2][1].t = "s"
    /\ pc = "done" => /\ result.sheet[2][1].v = Str(DateSubstring)
                      /\ result.sheet[2][1].t = "s"

DateIs(y, m, d) ==
    /\ processed[1].dateVal.k = "Date"
    /\ processed[1].dateVal.year = y
    /\ processed[1].dateVal.month + 1 = m
    /\ processed[1].dateVal.date = d

RejectedDates ==
    {<<"1", "3", "/", "4", "5", "/", "2", "0", "2", "0">>,
     <<"4", "/", "0", "5", "/", "1", "9", "0", "0">>,
     <<"4", "/", "3", "1", "/", "2", "0", "2", "1">>,
     <<"2", "/", "2", "9", "/", "2", "0", "2", "1">>,
     <<"1", "9", "0", "0", "-", "4", "-", "0", "5">>,
     <<"0", "5", ".", "4", ".", "4", "5">>,
     <<"0", "/", "0", "5", "/", "2", "0", "2", "1">>,
     <<"4", "/", "0", "/", "2", "0", "2", "1">>}

\* C6: the patterns M/d/yyyy, MM/dd/yyyy, yyyy-MM-dd, dd.MM.yyyy, d.M.yyyy
\* are tried in this order and the first that parses with a year over 1900
\* gives the date; when none is accepted (no pattern matches, as for
\* 13/45/2020, or every match has a year of 1900 or less) the output date
\* cell is a text cell holding the date substring, never a number.
C6_DateFallback ==
    OneRow =>
      /\ IF \E i \in 1..5 : DateAccepted(i)
         THEN LET i == CHOOSE k \in 1..5 :
                          DateAccepted(k) /\ \A j \in 1..(k - 1) : ~DateAccepted(j)
              IN  processed[1].dateVal = parse(DateSubstring, dateFmts[i], now)
         ELSE DateCellIsText
      /\ DateSubstring \in RejectedDates => DateCellIsText
      /\ DateSubstring = <<"4", "/", "0", "5", "/", "2", "0", "2", "1">> => DateIs(2021, 4, 5)
      /\ DateSubstring = <<"2", "0", "2", "1", "-", "4", "-", "0", "5">> => DateIs(2021, 4, 5)
      /\ DateSubstring = <<"0", "5", ".", "4", ".", "2", "0", "2", "1">> => DateIs(2021, 4, 5)
      /\ DateSubstring = <<"2", "/", "2", "9", "/", "2", "0", "2", "0">> => DateIs(2020, 2, 29)
      /\ DateSubstring = <<"4", "/", "0", "5", "/", "1", "9", "0", "1">> => DateIs(1901, 4, 5)

C6_Witness ==
    /\ pc = "done"
    /\ DataRowCount = 1
    /\ DateSubstring = <<"1", "3", "/", "4", "5", "/", "2", "0", "2", "0">>
    /\ TimeSubstring # << >>
    /\ result.sheet[2][1].t = "s"
    /\ result.sheet[2][1].v = Str(<<"1", "3", "/", "4", "5", "/", "2", "0", "2", "0">>)

-----------------------------------------------------------------------------
(* Time texts (specification SpecTime): a table of the one column          *)
(* Date/Time Played and one data row, the date fixed                       *)

TimeNums ==
    {<<"0">>,
     <<"0", "0">>,
     <<"1">>,
     <<"7">>,
     <<"1", "2">>,
     <<"1", "3">>,
     <<"2", "4">>,
     <<"5", "9">>,
     <<"7", "5">>}

TimeSuffixes ==
    {<< >>,
     <<" ", "P", "M">>,
     <<" ", "A", "M">>,
     <<"P", "M">>,
     <<" ", "x", "m">>}

TimeTexts ==
    {a \o <<":">> \o b \o sfx :
        a \in TimeNums, b \in TimeNums, sfx \in TimeSuffixes}
    \cup {a \o <<":">> \o b \o <<":">> \o c \o sfx :
        a \in TimeNums, b \in TimeNums, c \in TimeNums, sfx \in TimeSuffixes}

SampleDate == <<"4", "/", "5", "/", "2", "0", "2", "1">>

TimeInputs ==
    {HeaderText("dt") \o <<"\n">> \o SampleDate \o <<" ">> \o t : t \in TimeTexts}
    \cup {HeaderText("dt") \o <<"\n">> \o f :
            f \in {<<"4", "/", "5", "/", "2", "0", "2", "1">>,
                   <<"4", "/", "5", "/", "2", "0", "2", "1", " ", "7">>,
                   <<"4", "/", "5", "/", "2", "0", "2", "1", " ", "7", ":">>,
                   <<"4", "/", "5", "/", "2", "0", "2", "1", " ", ":", "7">>,
                   <<"4", "/", "5", "/", "2", "0", "2", "1", " ", "7", ":", "5", ":", "3", ":", "1">>,
                   <<"4", "/", "5", "/", "2", "0", "2", "1", " ", "1", "2", "3", ":", "5">>,
                   <<"4", "/", "5", "/", "2", "0", "2", "1", " ", " ", "7", ":", "5", "9">>,
                   <<"4", "/", "5", "/", "2", "0", "2", "1", " ", "7", ":", "5", "9", ":">>,
                   <<"4", "/", "5", "/", "2", "0", "2", "1", " ", "7", ".", "5", "9">>,
                   <<"7", ":", "5", "9">>}}
    \cup {<< >>}

ReadTimes == Read(TimeInputs, {MkDate(2026, 10, 3, 9, 8, 7)})

NextTime == ReadTimes \/ Index \/ Process \/ Build \/ Style \/ Write

SpecTime == Init /\ [][NextTime]_vars

\* The time text read under the i-th strict pattern, on the reference date
StrictTime(i) ==
    parse(base \o <<" ">> \o TimeSubstring, baseFmt \o <<" ">> \o timeFmts[i], now)

\* The time text is ':'-separated groups of one or two digits, their number
\* one of counts
DigitGroups(counts) ==
    LET parts == split(TimeSubstring, ":")
    IN  /\ Len(parts) \in counts
        /\ \A i \in 1..Len(parts) :
              /\ Len(parts[i]) \in {1, 2}
              /\ \A j \in 1..Len(parts[i]) : parts[i][j] \in Digits

TimeIs(h, m, s) ==
    /\ processed[1].timeVal.k = "Date"
    /\ processed[1].timeVal.valid
    /\ processed[1].timeVal.hours = h
    /\ processed[1].timeVal.minutes = m
    /\ processed[1].timeVal.seconds = s

TimeIsEmpty == processed[1].timeVal = Str(<< >>)

\* The time of day of the written hours, minutes and seconds, the excess of
\* each carried into the next and the whole wrapped at the day
TimeIsCarried ==
    LET parts == split(TimeSubstring, ":")
        h     == DigitsValue(parts[1])
        m     == DigitsValue(parts[2])
        s     == IF Len(parts) = 3 THEN DigitsValue(parts[3]) ELSE 0
        tod   == (h * 3600 + m * 60 + s) % 86400
    IN  TimeIs(tod \div 3600, (tod % 3600) \div 60, tod % 60)

TimeStages(counts) ==
    /\ pc = "failed" => csvData = << >>
    /\ OneRow =>
         IF \E i \in 1..6 : StrictTime(i).valid
         THEN LET i == CHOOSE k \in 1..6 :
                          StrictTime(k).valid
                          /\ \A j \in 1..(k - 1) : ~StrictTime(j).valid
              IN  processed[1].timeVal = StrictTime(i)
         ELSE IF DigitGroups(counts) THEN TimeIsCarried
         ELSE TimeIsEmpty

-----------------------------------------------------------------------------
(* Written dates and times (specification SpecDT): fields "<date> <time>"  *)
(* written from a calendar date under one of the five date patterns and    *)
(* from a time of day under one of the six time patterns                   *)

DigitText == <<"0", "1", "2", "3", "4", "5", "6", "7", "8", "9">>

\* A number written without padding, with two digits, with four digits
RECURSIVE Dec(_)
Dec(n) ==
    IF n < 10 THEN <<DigitText[n + 1]>>
    ELSE Dec(n \div 10) \o <<DigitText[(n % 10) + 1]>>

Pad2(n) == <<DigitText[((n \div 10) % 10) + 1], DigitText[(n % 10) + 1]>>

Pad4(n) == Pad2(n \div 100) \o Pad2(n % 100)

\* The days of month m (1..12) of year y
DaysIn(y, m) ==
    IF m \in {4, 6, 9, 11} THEN 30
    ELSE IF m # 2 THEN 31
    ELSE IF (y % 4 = 0 /\ y % 100 # 0) \/ y % 400 = 0 THEN 29
    ELSE 28

WrittenYears == {1900, 1901, 2021, 2024}

DateDescs ==
    {dd \in [p : 1..5, y : WrittenYears, m : {1, 2, 4, 12}, d : {1, 5, 29, 31}] :
        dd.d <= DaysIn(dd.y, dd.m)}

\* The date written under the p-th of the patterns M/d/yyyy, MM/dd/yyyy,
\* yyyy-MM-dd, dd.MM.yyyy, d.M.yyyy
RenderDate(dd) ==
    CASE dd.p = 1 -> Dec(dd.m) \o <<"/">> \o Dec(dd.d) \o <<"/">> \o Pad4(dd.y)
      [] dd.p = 2 -> Pad2(dd.m) \o <<"/">> \o Pad2(dd.d) \o <<"/">> \o Pad4(dd.y)
      [] dd.p = 3 -> Pad4(dd.y) \o <<"-">> \o Pad2(dd.m) \o <<"-">> \o Pad2(dd.d)
      [] dd.p = 4 -> Pad2(dd.d) \o <<".">> \o Pad2(dd.m) \o <<".">> \o Pad4(dd.y)
      [] dd.p = 5 -> Dec(dd.d) \o <<".">> \o Dec(dd.m) \o <<".">> \o Pad4(dd.y)

\* The patterns h:mm a and H:mm write no seconds
TimeDescs ==
    {td \in [p : 1..6, h : {0, 1, 11, 12, 13, 23}, mi : {0, 2, 59}, s : {0, 3}] :
        td.p \in {5, 6} => td.s = 0}

Hour12(h) == IF h % 12 = 0 THEN 12 ELSE h % 12

Meridiem(h) == IF h < 12 THEN <<" ", "A", "M">> ELSE <<" ", "P", "M">>

\* The time written under the p-th of the patterns h:mm:ss a, hh:mm:ss a,
\* H:mm:ss, HH:mm:ss, h:mm a, H:mm
RenderTime(td) ==
    CASE td.p = 1 -> Dec(Hour12(td.h)) \o <<":">> \o Pad2(td.mi) \o <<":">>
                     \o Pad2(td.s) \o Meridiem(td.h)
      [] td.p = 2 -> Pad2(Hour12(td.h)) \o <<":">> \o Pad2(td.mi) \o <<":">>
                     \o Pad2(td.s) \o Meridiem(td.h)
      [] td.p = 3 -> Dec(td.h) \o <<":">> \o Pad2(td.mi) \o <<":">> \o Pad2(td.s)
      [] td.p = 4 -> Pad2(td.h) \o <<":">> \o Pad2(td.mi) \o <<":">> \o Pad2(td.s)
      [] td.p = 5 -> Dec(Hour12(td.h)) \o <<":">> \o Pad2(td.mi) \o Meridiem(td.h)
      [] td.p = 6 -> Dec(td.h) \o <<":">> \o Pad2(td.mi)

\* Every date with one time of each pattern, one date of each pattern with
\* every time
PairedTimes == {td \in TimeDescs : td.h = 13 /\ td.mi = 2 /\ td.s = (IF td.p \in {5, 6} THEN 0 ELSE 3)}

PairedDates == {dd \in DateDescs : dd.y = 2024 /\ dd.m = 2 /\ dd.d = 29}

WrittenInputs ==
    {HeaderText("dt") \o <<"\n">> \o RenderDate(dd) \o <<" ">> \o RenderTime(td) :
        dd \in DateDescs, td \in PairedTimes}
    \cup {HeaderText("dt") \o <<"\n">> \o RenderDate(dd) \o <<" ">> \o RenderTime(td) :
        dd \in PairedDates, td \in TimeDescs}
    \cup {<< >>}

ReadWritten == Read(WrittenInputs, {MkDate(2026, 10, 3, 9, 8, 7)})

NextDT == ReadWritten \/ Index \/ Process \/ Build \/ Style \/ Write

SpecDT == Init /\ [][NextDT]_vars

\* The date written with a year of years and the time written are extracted
\* with the year, month, day, hour, minute and second they were written from
RoundTrip(years) ==
    OneRow =>
      /\ \A dd \in DateDescs :
           (dd.y \in years /\ DateSubstring = RenderDate(dd))
             => DateIs(dd.y, dd.m, dd.d)
      /\ \A td \in TimeDescs :
           TimeSubstring = RenderTime(td) => TimeIs(td.h, td.mi, td.s)

\* C8 as stated: every date valid under one of the five patterns is
\* extracted with its written year, month and day.
C8_StatedRoundTrip == RoundTrip(WrittenYears)

\* C8: for a field "<date> <time>" whose date is valid under one of the five
\* date patterns with a year over 1900 and whose time is valid under one of
\* the six time patterns, the extracted year, month and day and the
\* extracted hour, minute and second are the ones written (a 12-hour time
\* read with its AM or PM, absent seconds as 0).
C8_RoundTrip == RoundTrip({y \in WrittenYears : y > 1900})

C8_Witness ==
    /\ pc = "done"
    /\ DataRowCount = 1
    /\ DateSubstring = RenderDate([p |-> 4, y |-> 2024, m |-> 2, d |-> 29])
    /\ TimeSubstring = RenderTime([p |-> 5, h |-> 0, mi |-> 59, s |-> 0])
    /\ DateIs(2024, 2, 29)
    /\ TimeIs(0, 59, 0)

-----------------------------------------------------------------------------
(* Two runs on the same text                                               *)

\* The outcome of a run on the table read, started at the instant ref: the
\* steps of the conversion one after the other
ConvertAt(table, ref) ==
    IF IsEmpty(table) THEN EmptyError
    ELSE LET recs == [i \in 1..(Len(table) - 1) |->
                         ProcessRow(table[i + 1], ColumnIndex(table), ref)]
             grid == BuildAoa(recs)
         IN  WriteWorkbook(StyleSheet(aoa_to_sheet(grid), grid), ColumnWidths)

\* Instants of a second run: the two of the runs, a leap day, the last day
\* of a month, the last second of a year
OtherInstants ==
    Nows \cup {MkDate(2024, 1, 29, 0, 0, 0), MkDate(2025, 0, 31, 12, 30, 0),
               MkDate(1899, 11, 31, 23, 59, 59)}

\* C11: a run that ended (with the workbook or with the error) has the
\* outcome that a run on the same text has at any other instant: the same
\* cell values, types, formats and font sizes, and the same column widths.
C11_SameOutput ==
    pc \in {"done", "failed"} =>
        \A t \in OtherInstants : ConvertAt(raw, t) = result

C11_Witness ==
    /\ pc = "done"
    /\ DataRowCount >= 1
    /\ HasHeader(n_datetime)
    /\ result.sheet[2][1].t = "n"
    /\ result.sheet[2][3].t = "n"
    /\ \E t \in Nows : t # now /\ ConvertAt(raw, t) = result

-----------------------------------------------------------------------------
(* Column order and letter case (specification SpecCols): tables of one to *)
(* MaxCols columns drawn from a pool, each with its own cell, and one row  *)

ColumnPool ==
    {[label |-> <<"A", "r", "t", "i", "s", "t">>,
      cell |-> <<"A", "b", "b", "a">>],
     [label |-> <<" ", "a", "r", "t", "i", "s", "t">>,
      cell |-> <<"Q", "u", "e", "e", "n">>],
     [label |-> <<"T", "i", "t", "l", "e">>,
      cell |-> <<"T", "i", "1">>],
     [label |-> <<"T", "i", "t", "l", "e", " ", "P", "l", "a", "y", "e", "d">>,
      cell |-> <<"T", "p", "1">>],
     [label |-> <<"A", "l", "b", "u", "m">>,
      cell |-> <<"A", "l", "1">>],
     [label |-> <<"G", "e", "n", "r", "e">>,
      cell |-> <<"G", "e", "1">>],
     [label |-> <<"D", "u", "r", "a", "t", "i", "o", "n">>,
      cell |-> <<"3", ":", "4", "5">>],
     [label |-> <<"Y", "E", "A", "R", " ">>,
      cell |-> <<"1", "9", "7", "6">>]}

MaxCols == 3

\* Sequences of distinct columns of the pool
ColumnSeqs ==
    {cs \in UNION {[1..n -> ColumnPool] : n \in 1..MaxCols} :
        \A i, j \in 1..Len(cs) : i # j => cs[i] # cs[j]}

ColumnsCsv(cs) ==
    join(<<join([i \in 1..Len(cs) |-> cs[i].label], ";"),
           join([i \in 1..Len(cs) |-> cs[i].cell], ";")>>, "\n")

ColumnInputs == {ColumnsCsv(cs) : cs \in ColumnSeqs} \cup {<< >>}

ReadColumns == Read(ColumnInputs, {MkDate(2026, 10, 3, 9, 8, 7)})

NextCols == ReadColumns \/ Index \/ Process \/ Build \/ Style \/ Write

SpecCols == Init /\ [][NextCols]_vars

UpperChar(c) ==
    IF \E i \in 1..26 : LowerCase[i] = c
    THEN UpperCase[CHOOSE i \in 1..26 : LowerCase[i] = c]
    ELSE c

\* A label in capitals, in small letters, or with the case of each letter
\* changed
Recase(s, how) ==
    [i \in 1..Len(s) |->
        CASE how = "upper" -> UpperChar(s[i])
          [] how = "lower" -> LowerChar(s[i])
          [] how = "swap"  -> IF UpperChar(s[i]) = s[i] THEN LowerChar(s[i])
                              ELSE UpperChar(s[i])]

Bijections(n) ==
    {f \in [1..n -> 1..n] : \A i, j \in 1..n : f[i] = f[j] => i = j}

\* The table with its columns in the order perm (header and cells together)
\* and its header labels recased
Rearranged(table, perm, how) ==
    [r \in 1..Len(table) |->
        [c \in 1..Len(table[r]) |->
            IF r = 1 THEN Recase(table[r][perm[c]], how)
            ELSE table[r][perm[c]]]]

\* The grid of a finished run is the grid of the run on every rearranged
\* table
SameGridRearranged ==
    \A perm \in Bijections(Len(raw[1])), how \in {"upper", "lower", "swap"} :
        ConvertAt(Rearranged(raw, perm, how), now) = result

\* C12 as stated: for header labels pairwise distinct after lower-casing,
\* permuting the columns and recasing the labels leave the grid unchanged.
C12_StatedColumnOrder ==
    (/\ pc = "done"
     /\ \A i, j \in 1..Len(raw[1]) :
          i # j => toLowerCase(raw[1][i]) # toLowerCase(raw[1][j]))
        => SameGridRearranged

\* C12: for header labels pairwise distinct after trimming and
\* lower-casing, the output grid depends on the columns only through the
\* map from the trimmed, lower-cased label to the column's content:
\* permuting the columns (header and cells together) and changing the
\* letter case of the labels leave the output grid unchanged.
C12_ColumnOrder ==
    (/\ pc = "done"
     /\ \A i, j \in 1..Len(raw[1]) :
          i # j => toLowerCase(trim(raw[1][i])) # toLowerCase(trim(raw[1][j])))
        => SameGridRearranged

C12_Witness ==
    /\ pc = "done"
    /\ Len(raw[1]) = 3
    /\ raw[1][1] = <<"T", "i", "t", "l", "e">>
    /\ raw[1][2] = <<"Y", "E", "A", "R", " ">>
    /\ raw[1][3] = <<" ", "a", "r", "t", "i", "s", "t">>
    /\ result.sheet[2][6].v = Str(<<"T", "i", "1">>)
    /\ result.sheet[2][9].v = Str(<<"Q", "u", "e", "e", "n">>)
    /\ ConvertAt(Rearranged(raw, <<3, 1, 2>>, "swap"), now) = result

-----------------------------------------------------------------------------
(* The title column (specification Spec)                                   *)

\* The table without its k-th column
DropColumn(table, k) == [r \in 1..Len(table) |-> Remove(table[r], k)]

\* The table with the cells of its k-th column replaced by text
WithCells(table, k, text) ==
    [r \in 1..Len(table) |->
        IF r = 1 THEN table[r] ELSE [table[r] EXCEPT ![k] = text]]

\* C13: TITLUL PIESEI of every row is the row's cell under `title played`
\* when that header is present, and its cell under `title` only when
\* `title played` is absent; with both present the `title` column has no
\* effect on the output (dropping it or changing its cells gives the same
\* workbook); with neither present TITLUL PIESEI is blank in every row.
C13_TitleColumn ==
    pc = "done" =>
      /\ HasHeader(n_titleplayed) =>
           \A i \in 1..DataRowCount :
              /\ result.sheet[i + 1][6].v = Str(OwnCell(i, n_titleplayed))
              /\ result.sheet[i + 1][6].t = "s"
      /\ (~HasHeader(n_titleplayed) /\ HasHeader(n_title)) =>
           \A i \in 1..DataRowCount :
              /\ result.sheet[i + 1][6].v = Str(OwnCell(i, n_title))
              /\ result.sheet[i + 1][6].t = "s"
      /\ (HasHeader(n_titleplayed) /\ HasHeader(n_title)) =>
           /\ ConvertAt(DropColumn(raw, ColumnOf(n_title)), now) = result
           /\ ConvertAt(WithCells(raw, ColumnOf(n_title), <<"z">>), now) = result
      /\ (~HasHeader(n_titleplayed) /\ ~HasHeader(n_title)) =>
           \A i \in 1..DataRowCount : BlankCell(result.sheet[i + 1][6])

C13_Witness ==
    /\ pc = "done"
    /\ DataRowCount = 2
    /\ HasHeader(n_title)
    /\ HasHeader(n_titleplayed)
    /\ ColumnOf(n_titleplayed) = 1
    /\ OwnCell(1, n_title) # OwnCell(1, n_titleplayed)
    /\ result.sheet[2][6].v = Str(OwnCell(1, n_titleplayed))
    /\ result.sheet[3][6].v = Str(OwnCell(2, n_titleplayed))

-----------------------------------------------------------------------------
(* The date cell (specification SpecDT)                                    *)

\* The days of the years 1900..(y - 1) and of the months 1..(m - 1) of y
RECURSIVE DaysOfYears(_)
DaysOfYears(y) ==
    IF y <= 1900 THEN 0
    ELSE DaysOfYears(y - 1) + 337 + DaysIn(y - 1, 2)

RECURSIVE DaysOfMonths(_, _)
DaysOfMonths(y, m) ==
    IF m <= 1 THEN 0 ELSE DaysOfMonths(y, m - 1) + DaysIn(y, m - 1)

\* The calendar days from 1899-12-30 to the day d of month m of year y
\* (1900-01-01 is day 2)
DaysSinceEpoch(y, m, d) == 2 + DaysOfYears(y) + DaysOfMonths(y, m) + (d - 1)

\* C14: when the date of a row was parsed, its DATA DIFUZARII cell is
\* numeric, of format mm/dd/yyyy, and its value is the whole number of
\* calendar days from 1899-12-30 to the year, month and day written,
\* whatever the time text of the row; when the date was not parsed the cell
\* is a text cell holding the date text, not converted.
C14_DateCell ==
    (Styled /\ DataRowCount = 1) =>
      LET cell == ws[2][1]
      IN  /\ \A dd \in DateDescs :
                (dd.y > 1900 /\ DateSubstring = RenderDate(dd)) =>
                   /\ cell.t = "n"
                   /\ cell.z = "mm/dd/yyyy"
                   /\ cell.v = [k |-> "number",
                                n |-> DaysSinceEpoch(dd.y, dd.m, dd.d), d |-> 1]
          /\ processed[1].dateVal.k = "Date" =>
                /\ cell.t = "n"
                /\ cell.z = "mm/dd/yyyy"
                /\ cell.v.k = "number"
                /\ cell.v.d = 1
          /\ processed[1].dateVal.k # "Date" =>
                /\ cell.t = "s"
                /\ cell.z = ""
                /\ cell.v = Str(DateSubstring)
          /\ pc = "done" => result.sheet[2][1] = cell

C14_Witness ==
    /\ pc = "done"
    /\ DataRowCount = 1
    /\ DateSubstring = RenderDate([p |-> 3, y |-> 2021, m |-> 4, d |-> 5])
    /\ result.sheet[2][1].t = "n"
    /\ result.sheet[2][1].z = "mm/dd/yyyy"
    /\ result.sheet[2][1].v = [k |-> "number", n |-> 44291, d |-> 1]

-----------------------------------------------------------------------------
(* The time cell (specification SpecTime)                                  *)

\* The time of a resolved time text, in seconds, from the numbers written:
\* hours, minutes and seconds (0 when absent) between ':', the hours of a
\* text ending in AM or PM read on the 12-hour clock
TextSeconds ==
    LET sp == split(TimeSubstring, " ")
        g  == split(sp[1], ":")
        h  == DigitsValue(g[1])
        m  == DigitsValue(g[2])
        s  == IF Len(g) >= 3 THEN DigitsValue(g[3]) ELSE 0
        h24 == IF Len(sp) = 1 THEN h
               ELSE (h % 12) + (IF sp[2] = <<"P", "M">> THEN 12 ELSE 0)
    IN  h24 * 3600 + m * 60 + s

TimeResolved == processed[1].timeVal.k = "Date"

\* C15 as stated: a resolved time gives a numeric ORA DIFUZARII cell of
\* format hh:mm:ss whose value is (hours*3600 + minutes*60 + seconds)/86400
\* for the hours, minutes and seconds of the time text, at least 0 and less
\* than 1; an unresolved time gives a blank text cell.
C15_StatedTimeCell ==
    (Styled /\ DataRowCount = 1) =>
      LET cell == ws[2][3]
      IN  /\ TimeResolved =>
                /\ cell.t = "n"
                /\ cell.z = "hh:mm:ss"
                /\ cell.v = Frac(TextSeconds, 86400)
                /\ TextSeconds >= 0
                /\ TextSeconds < 86400
          /\ ~TimeResolved => BlankCell(cell)

-----------------------------------------------------------------------------
(* The font of the cells (specification Spec)                              *)

\* Every cell of the 18 columns of every row of the sheet has the font size
AllCellsSized(sheet) ==
    /\ Len(sheet) = DataRowCount + 1
    /\ \A R \in 1..Len(sheet) :
          /\ Len(sheet[R]) = 18
          /\ \A C \in 1..18 : sheet[R][C].sz = 10

\* C16: after formatting, every cell of the grid (the 18 cells of the
\* header row and of every data row: blank cells, text-fallback cells and
\* cells converted to numbers alike) carries the font size 10.
C16_FontSize ==
    /\ Styled => AllCellsSized(ws)
    /\ pc = "done" => AllCellsSized(result.sheet)

C16_Witness ==
    /\ pc = "done"
    /\ DataRowCount = 2
    /\ HasHeader(n_datetime)
    /\ result.sheet[2][1].t = "n"
    /\ result.sheet[3][1].t = "s"
    /\ result.sheet[3][1].v # BlankValue
    /\ BlankCell(result.sheet[2][2])
    /\ result.sheet[1][1].sz = 10
    /\ result.sheet[2][1].sz = 10
    /\ result.sheet[3][1].sz = 10
    /\ result.sheet[2][2].sz = 10

-----------------------------------------------------------------------------
(* Diagnostics (specification Spec)                                        *)

Processed == pc \in {"processed", "built", "styled", "done"}

\* The recognized columns that the header row does not name (the title is
\* missing when neither of its two headers is there)
MissingColumns ==
    {n \in {n_datetime, n_duration, n_artist, n_album, n_composer, n_year,
            n_publisher, n_copyright} : ~HasHeader(n)}
    \cup (IF ~HasHeader(n_titleplayed) /\ ~HasHeader(n_title)
          THEN {n_titleplayed} ELSE {})

\* The fields of row i whose parse failed: a date accepted by no pattern, a
\* time left unresolved, a duration of unsupported shape
FailedFields(i) ==
    (IF HasHeader(n_datetime) /\ processed[i].dateVal.k # "Date"
     THEN {"date"} ELSE {})
    \cup (IF HasHeader(n_datetime) /\ processed[i].timeVal.k # "Date"
          THEN {"time"} ELSE {})
    \cup (IF HasHeader(n_duration) /\ processed[i].mins.k # "number"
          THEN {"duration"} ELSE {})

\* C17: once the rows are processed, every failed field of every row has
\* its diagnostic and every missing recognized column has exactly one.
C17_Diagnostics ==
    Processed =>
      /\ \A i \in 1..DataRowCount : \A f \in FailedFields(i) :
            \E k \in 1..Len(warned) :
               warned[k] = [kind |-> "field", field |-> f, row |-> i]
      /\ \A n \in MissingColumns :
            Cardinality({k \in 1..Len(warned) :
                            warned[k] = [kind |-> "column", name |-> n]}) = 1

-----------------------------------------------------------------------------
(* The page, handler by handler (src/unnamed/part_001)                     *)

\* The files a user may pick: name, MIME type, whether the FileReader can
\* read it, and what it holds (a table, nothing at all, or a text that is
\* read as no rows, on which convertCsvToXls throws)
Files ==
    {[k |-> "file", name |-> <<"a", ".", "c", "s", "v">>,
      type |-> "text/csv", readable |-> TRUE, content |-> "table"],
     [k |-> "file", name |-> <<"M", "y", " ", "L", "o", "g", "-", "2", ".", "C", "S", "V">>,
      type |-> "text/csv", readable |-> TRUE, content |-> "table"],
     [k |-> "file", name |-> <<"e", "m", "p", "t", "y", ".", "c", "s", "v">>,
      type |-> "text/csv", readable |-> TRUE, content |-> "empty"],
     [k |-> "file", name |-> <<"l", "o", "c", "k", "e", "d", ".", "c", "s", "v">>,
      type |-> "text/csv", readable |-> FALSE, content |-> "table"],
     [k |-> "file", name |-> <<"b", "l", "a", "n", "k", ".", "c", "s", "v">>,
      type |-> "text/csv", readable |-> TRUE, content |-> "norows"],
     [k |-> "file", name |-> <<"n", "o", "t", "e", "s", ".", "t", "x", "t">>,
      type |-> "text/plain", readable |-> TRUE, content |-> "table"]}

\* lines 18-35: handleFileChange, for the file of the event (NoFile when
\* event.target.files is empty)
handleFileChange(file) ==
    /\ IF file # NoFile /\ file.type = "text/csv"
       THEN /\ selectedFile' = file
            /\ downloadUrl' = NoUrl
            /\ downloadFilename' = SafeFilename(file.name)
       ELSE /\ selectedFile' = NoFile
            /\ UNCHANGED <<downloadUrl, downloadFilename>>
    /\ UNCHANGED <<isLoading, reader, convVars>>

\* lines 128-137, 37-51, 86: a click on the button, which is enabled when a
\* file is selected and no conversion is loading; handleConvert sets the
\* loading flag, clears the link and starts reading the selected file
handleConvert ==
    /\ selectedFile # NoFile
    /\ ~isLoading
    /\ isLoading' = TRUE
    /\ downloadUrl' = NoUrl
    /\ reader' = [stage |-> "reading", file |-> selectedFile]
    /\ UNCHANGED <<selectedFile, downloadFilename, convVars>>

\* lines 77-85: reader.onerror
onerror ==
    /\ reader.stage = "reading"
    /\ ~reader.file.readable
    /\ isLoading' = FALSE
    /\ reader' = Idle
    /\ UNCHANGED <<selectedFile, downloadUrl, downloadFilename, convVars>>

\* lines 52-58: reader.onload up to the await; an empty content throws
\* outside the inner try, in a callback that nothing catches
onload ==
    /\ reader.stage = "reading"
    /\ reader.file.readable
    /\ IF reader.file.content = "empty"
       THEN reader' = Idle
       ELSE reader' = [stage |-> "converting", file |-> reader.file]
    /\ UNCHANGED <<selectedFile, isLoading, downloadUrl, downloadFilename,
                   convVars>>

\* lines 58-75: the conversion settles; its buffer becomes the link, or its
\* error a toast; finally the loading flag is cleared
converted ==
    /\ reader.stage = "converting"
    /\ IF reader.file.content = "table"
       THEN downloadUrl' = UrlOf(reader.file)
       ELSE UNCHANGED downloadUrl
    /\ isLoading' = FALSE
    /\ reader' = Idle
    /\ UNCHANGED <<selectedFile, downloadFilename, convVars>>

PickFile == \E file \in Files \cup {NoFile} : handleFileChange(file)

NextHome == PickFile \/ handleConvert \/ onerror \/ onload \/ converted

SpecHome == Init /\ [][NextHome]_vars

\* The browser delivers the reader's event and the conversion settles
SpecHomeFair ==
    /\ SpecHome
    /\ WF_vars(onerror)
    /\ WF_vars(onload)
    /\ WF_vars(converted)

\* C18: a conversion that set isLoading eventually sets it back to false,
\* whichever way it ends (read error, empty content, conversion error,
\* success).
C18_LoadingEnds == isLoading ~> ~isLoading

\* C19: whenever downloadUrl is set, a file is selected, the link is the
\* conversion of that file and downloadFilename is derived from its name.
C19_DownloadMatchesSelection ==
    downloadUrl # NoUrl =>
        /\ selectedFile # NoFile
        /\ downloadUrl = UrlOf(selectedFile)
        /\ downloadFilename = SafeFilename(selectedFile.name)


====
